---- MODULE Spec2Model ----
(***************************************************************************)
(* A model of warp_drive/training/models/fully_connected.py: the          *)
(* FullyConnected policy/value network and apply_logit_mask.              *)
(*                                                                         *)
(* Tensors are records [shape, data] with the data in row-major order.    *)
(* Numbers are integers: logits, weights and observations are small       *)
(* integers, and probabilities are fixed-point numbers with ProbScale     *)
(* standing for 1.0.  A raised Python exception is a record [err |-> e].  *)
(***************************************************************************)
EXTENDS Integers, Sequences, FiniteSets, TLC

(***************************************************************************)
(* Bounds of the model.                                                    *)
(***************************************************************************)
\* the simulation's observation buffers take the contents 0..MaxStep
MaxStep == 1
\* the number of environments (the first dimension of every buffer)
NumEnvs == 2
\* the number of agents of the environment
NumAgents == 2
\* largest absolute value of a logit handed to apply_logit_mask directly
MaxLogit == 1

(***************************************************************************)
(* Python values.                                                          *)
(***************************************************************************)
None == [none |-> TRUE]

Raise(e) == [err |-> e]

IsErr(v) == "err" \in DOMAIN v

IsNone(v) == "none" \in DOMAIN v

IsTensor(v) == "shape" \in DOMAIN v

Tensor(shape, data) == [shape |-> shape, data |-> data]

(***************************************************************************)
(* Arithmetic on shapes.                                                   *)
(***************************************************************************)
RECURSIVE Prod(_)
Prod(s) == IF s = <<>> THEN 1 ELSE Head(s) * Prod(Tail(s))

RECURSIVE SumSeq(_)
SumSeq(s) == IF s = <<>> THEN 0 ELSE Head(s) + SumSeq(Tail(s))

Numel(t) == Len(t.data)

\* the number of elements one step along dimension d (1-based) of shape s skips
Stride(s, d) == Prod(SubSeq(s, d + 1, Len(s)))

\* the coordinate along dimension d of the element at 0-based position k
Coord(k, s, d) == (k \div Stride(s, d)) % s[d]

\* Python's negative dimension numbers
NormDim(d, rank) == IF d < 0 THEN d + rank ELSE d

(***************************************************************************)
(* torch.Tensor.permute: dims are Python's 0-based dimension numbers.      *)
(***************************************************************************)
Permute(t, dims) ==
    LET rank == Len(t.shape)
        nd   == [j \in DOMAIN dims |-> NormDim(dims[j], rank) + 1]
    IN  IF \/ Len(dims) # rank
           \/ \E j \in DOMAIN nd : nd[j] < 1 \/ nd[j] > rank
           \/ \E i, j \in DOMAIN nd : i # j /\ nd[i] = nd[j]
        THEN Raise("RuntimeError")
        ELSE LET outShape == [j \in 1..rank |-> t.shape[nd[j]]]
                 src(k) == SumSeq([j \in 1..rank |->
                              Coord(k, outShape, j) * Stride(t.shape, nd[j])])
             IN  Tensor(outShape, [k \in 1..Numel(t) |-> t.data[src(k - 1) + 1]])

(***************************************************************************)
(* torch.Tensor.reshape: one entry of the new shape may be -1.             *)
(***************************************************************************)
Reshape(t, shape) ==
    LET known   == Prod([j \in DOMAIN shape |-> IF shape[j] = -1 THEN 1 ELSE shape[j]])
        holes   == {j \in DOMAIN shape : shape[j] = -1}
        n       == Numel(t)
    IN  IF holes = {}
        THEN IF known = n THEN Tensor(shape, t.data) ELSE Raise("RuntimeError")
        ELSE IF Cardinality(holes) > 1 \/ known = 0 \/ n % known # 0
             THEN Raise("RuntimeError")
             ELSE Tensor([j \in DOMAIN shape |->
                             IF shape[j] = -1 THEN n \div known ELSE shape[j]],
                         t.data)

(***************************************************************************)
(* obs[:, ids]: the rows ids of dimension 1, in the order of ids.          *)
(***************************************************************************)
IndexSelect(t, ids) ==
    IF Len(t.shape) < 2 THEN Raise("IndexError")
    ELSE LET n     == t.shape[2]
             rest  == Stride(t.shape, 2)
             m     == Len(ids)
             shape == [j \in DOMAIN t.shape |-> IF j = 2 THEN m ELSE t.shape[j]]
         IN  IF \E j \in DOMAIN ids : ids[j] >= n \/ ids[j] < -n
             THEN Raise("IndexError")
             ELSE Tensor(shape,
                    [k \in 1..(t.shape[1] * m * rest) |->
                        LET e == (k - 1) \div (m * rest)
                            j == ((k - 1) \div rest) % m
                            r == (k - 1) % rest
                        IN  t.data[e * n * rest + NormDim(ids[j + 1], n) * rest + r + 1]])

(***************************************************************************)
(* Rows along the last dimension.                                          *)
(***************************************************************************)
LastDim(t) == t.shape[Len(t.shape)]

Lead(t) == SubSeq(t.shape, 1, Len(t.shape) - 1)

NumRows(t) == Prod(Lead(t))

Row(t, r) == SubSeq(t.data, (r - 1) * LastDim(t) + 1, r * LastDim(t))

RECURSIVE Flat(_)
Flat(ss) == IF ss = <<>> THEN <<>> ELSE Head(ss) \o Flat(Tail(ss))

\* torch.cat(ts, dim=-1)
CatLast(ts) ==
    IF ts = <<>> THEN Raise("RuntimeError")
    ELSE IF \E i \in DOMAIN ts : Len(ts[i].shape) = 0 \/ Lead(ts[i]) # Lead(ts[1])
    THEN Raise("RuntimeError")
    ELSE Tensor(Lead(ts[1]) \o <<SumSeq([i \in DOMAIN ts |-> LastDim(ts[i])])>>,
                Flat([r \in 1..NumRows(ts[1]) |->
                        Flat([i \in DOMAIN ts |-> Row(ts[i], r)])]))

(***************************************************************************)
(* Elementwise arithmetic with torch's broadcasting: shapes are aligned at *)
(* the right, and a dimension of size 1 is stretched.                      *)
(***************************************************************************)
Max(a, b) == IF a >= b THEN a ELSE b

\* the size of dimension j of a rank-r view of shape s (missing dimensions are 1)
DimAt(s, j, r) == IF j > r - Len(s) THEN s[j - (r - Len(s))] ELSE 1

BroadcastOk(a, b) ==
    LET r == Max(Len(a), Len(b))
    IN  \A j \in 1..r :
            \/ DimAt(a, j, r) = DimAt(b, j, r)
            \/ DimAt(a, j, r) = 1
            \/ DimAt(b, j, r) = 1

BroadcastShape(a, b) ==
    LET r == Max(Len(a), Len(b))
    IN  [j \in 1..r |-> IF DimAt(a, j, r) = 1 THEN DimAt(b, j, r) ELSE DimAt(a, j, r)]

\* the element of t that position k (0-based) of the broadcast shape reads
ExpandAt(t, shape, k) ==
    IF t.shape = shape THEN t.data[k + 1]
    ELSE t.data[SumSeq([j \in 1..Len(t.shape) |->
                  IF t.shape[j] = 1 THEN 0
                  ELSE Coord(k, shape, j + Len(shape) - Len(t.shape))
                         * Stride(t.shape, j)]) + 1]

\* a + b and a * b, stretched to the broadcast shape
AddAs(a, b, shape) ==
    Tensor(shape, [k \in 1..Prod(shape) |->
                     ExpandAt(a, shape, k - 1) + ExpandAt(b, shape, k - 1)])

MulAs(a, b, shape) ==
    Tensor(shape, [k \in 1..Prod(shape) |->
                     ExpandAt(a, shape, k - 1) * ExpandAt(b, shape, k - 1)])

TAdd(a, b) ==
    IF ~BroadcastOk(a.shape, b.shape) THEN Raise("RuntimeError")
    ELSE AddAs(a, b, BroadcastShape(a.shape, b.shape))

TMul(a, b) ==
    IF ~BroadcastOk(a.shape, b.shape) THEN Raise("RuntimeError")
    ELSE MulAs(a, b, BroadcastShape(a.shape, b.shape))

OnesLike(t) == Tensor(t.shape, [k \in 1..Numel(t) |-> 1])

Scale(t, c) == Tensor(t.shape, [k \in 1..Numel(t) |-> t.data[k] * c])

\* 1 - t
OneMinus(t) == Tensor(t.shape, [k \in 1..Numel(t) |-> 1 - t.data[k]])

(***************************************************************************)
(* apply_logit_mask                                                        *)
(***************************************************************************)
MaskPenalty == -10000000

\* logits + logit_mask, unless computing logit_mask has raised
AddLogitMask(logits, logit_mask) ==
    IF IsErr(logit_mask) THEN logit_mask ELSE TAdd(logits, logit_mask)

\* a variant that penalises the valid positions (mask instead of 1 - mask)
ApplyInvertedMask(logits, mask) ==
    IF IsNone(mask) THEN logits
    ELSE AddLogitMask(logits, TMul(Scale(OnesLike(logits), MaskPenalty), mask))

\* a variant whose penalty is -1
ApplyWeakMask(logits, mask) ==
    IF IsNone(mask) THEN logits
    ELSE AddLogitMask(logits, TMul(Scale(OnesLike(logits), -1), OneMinus(mask)))

apply_logit_mask(logits, mask) ==
    IF IsNone(mask) THEN logits
    ELSE AddLogitMask(logits,
            TMul(Scale(OnesLike(logits), MaskPenalty), OneMinus(mask)))

(***************************************************************************)
(* F.softmax(x, dim=-1) in fixed point.  torch subtracts the row maximum   *)
(* before exponentiating; ExpTable[d + 1] is exp(-d) in units of           *)
(* 1/ProbScale, and exp(-d) is below one unit from d = 7 on.               *)
(***************************************************************************)
ProbScale == 1000

ExpTable == <<1000, 367, 135, 49, 18, 6, 2>>

ExpNeg(d) == IF d < Len(ExpTable) THEN ExpTable[d + 1] ELSE 0

RECURSIVE MaxSeq(_)
MaxSeq(s) == IF Len(s) = 1 THEN s[1] ELSE Max(Head(s), MaxSeq(Tail(s)))

\* the weights w divided by their sum z
Normalise(w, z) == [i \in DOMAIN w |-> (w[i] * ProbScale) \div z]

ExpWeights(row, m) == SubSeq([i \in DOMAIN row |-> ExpNeg(m - row[i])], 1, Len(row))

SoftmaxOf(w) == Normalise(w, SumSeq(w))

SoftmaxRow(row) == SoftmaxOf(ExpWeights(row, MaxSeq(row)))

Softmax(t) ==
    Tensor(t.shape, Flat([r \in 1..NumRows(t) |-> SoftmaxRow(Row(t, r))]))

(***************************************************************************)
(* nn.Linear and nn.ReLU.  The parameters of a layer are fixed small       *)
(* integers that depend on the layer and the position.                     *)
(***************************************************************************)
Weight(layer, o, i) == ((layer + o + 2 * i) % 3) - 1

Bias(layer, o) == (layer + o) % 2

\* a layer is [id, in_features, out_features]
Layer(id, inF, outF) == [id |-> id, in_features |-> inF, out_features |-> outF]

LinearRow(layer, row) ==
    [o \in 1..layer.out_features |->
        SumSeq([i \in 1..layer.in_features |-> row[i] * Weight(layer.id, o, i)])
            + Bias(layer.id, o)]

Linear(layer, t) ==
    IF Len(t.shape) = 0 \/ LastDim(t) # layer.in_features THEN Raise("RuntimeError")
    ELSE Tensor(Lead(t) \o <<layer.out_features>>,
                Flat([r \in 1..NumRows(t) |-> LinearRow(layer, Row(t, r))]))

ReLU(t) == Tensor(t.shape, [k \in 1..Numel(t) |-> Max(0, t.data[k])])

\* vals[..., 0]
SelectLast0(t) ==
    Tensor(Lead(t), [r \in 1..NumRows(t) |-> t.data[(r - 1) * LastDim(t) + 1]])

(***************************************************************************)
(* The environment and the constructor's arguments.                        *)
(***************************************************************************)
OBSERVATIONS == "observations"

ACTION_MASK == "action_mask"

Box(shape) == [kind |-> "Box", shape |-> shape]

\* a Dict space is the sequence of its entries, in iteration order
Dict(entries) == [kind |-> "Dict", spaces |-> entries]

Entry(key, shape) == [key |-> key, shape |-> shape]

Discrete(n) == [kind |-> "Discrete", n |-> n]

MultiDiscrete(nvec) == [kind |-> "MultiDiscrete", nvec |-> nvec]

ObservationSpaces ==
    { Box(<<2, 3>>),
      Dict(<<Entry("A", <<3>>), Entry(ACTION_MASK, <<2>>), Entry("B", <<4>>)>>),
      [kind |-> "Tuple"] }

ActionSpaces == { Discrete(2), MultiDiscrete(<<2, 3>>), [kind |-> "Box"] }

\* agent ids 0 .. n-1 in order, and in reverse order
Upto(n) == [i \in 1..n |-> i - 1]

Downfrom(n) == [i \in 1..n |-> n - i]

\* one policy for all agents (in order, or listed in reverse), or policy "a"
\* for the last agent and policy "b" for the others
AgentIdMaps ==
    { [a |-> Upto(NumAgents)],
      [a |-> Downfrom(NumAgents)],
      [a |-> <<NumAgents - 1>>, b |-> Upto(NumAgents - 1)] }

\* assertions: whether the interpreter runs assert statements (python -O does
\* not).  Without them a run differs only where an assertion would have
\* failed, so that mode is listed only with the setting that fails one.
Arguments ==
    { a \in [ assertions : BOOLEAN,
              n_agents : {NumAgents},
              observation_space : ObservationSpaces,
              action_space : ActionSpaces,
              fc_dims : {<<3, 2>>},
              policy : {"a"},
              policy_tag_to_agent_id_map : AgentIdMaps,
              create_separate_placeholders_for_each_policy : BOOLEAN,
              obs_dim_corresponding_to_num_agents : {"first", "last", "middle"} ] :
        a.assertions \/ a.obs_dim_corresponding_to_num_agents \notin {"first", "last"} }

(***************************************************************************)
(* The data manager's buffers.  A buffer holds one row of features per     *)
(* environment and agent of the placeholder, the agent dimension first or  *)
(* last as configured.  Content v of a buffer of observations is the       *)
(* element positions shifted by v; content v of the action mask is mixed   *)
(* (v = 0), all zeros (v = 1) or all ones (v = 2), in turn.                *)
(***************************************************************************)
PlaceholderAgents(a) ==
    IF a.create_separate_placeholders_for_each_policy
    THEN Len(a.policy_tag_to_agent_id_map[a.policy])
    ELSE a.n_agents

BufferShape(a, shape) ==
    IF a.obs_dim_corresponding_to_num_agents = "last"
    THEN <<NumEnvs>> \o shape \o <<PlaceholderAgents(a)>>
    ELSE <<NumEnvs, PlaceholderAgents(a)>> \o shape

ObsBuffer(a, shape, v) ==
    LET s == BufferShape(a, shape)
    IN  Tensor(s, [k \in 1..Prod(s) |-> k + v])

MaskBit(v, k) == IF v % 3 = 0 THEN k % 2 ELSE IF v % 3 = 1 THEN 0 ELSE 1

MaskBuffer(a, shape, v) ==
    LET s == BufferShape(a, shape)
    IN  Tensor(s, [k \in 1..Prod(s) |-> MaskBit(v, k)])

BufferName(a, key) ==
    IF a.create_separate_placeholders_for_each_policy
    THEN <<OBSERVATIONS, a.policy>> \o key
    ELSE <<OBSERVATIONS>> \o key

Buffers(a, v) ==
    LET sp == a.observation_space
    IN  IF sp.kind = "Box"
        THEN [n \in {BufferName(a, <<>>)} |-> ObsBuffer(a, sp.shape, v)]
        ELSE IF sp.kind = "Dict"
        THEN [n \in {BufferName(a, <<sp.spaces[i].key>>) : i \in DOMAIN sp.spaces} |->
                LET i == CHOOSE i \in DOMAIN sp.spaces :
                             BufferName(a, <<sp.spaces[i].key>>) = n
                IN  IF sp.spaces[i].key = ACTION_MASK
                    THEN MaskBuffer(a, sp.spaces[i].shape, v)
                    ELSE ObsBuffer(a, sp.spaces[i].shape, v + i)]
        ELSE [n \in {} |-> None]

(***************************************************************************)
(* The state.                                                              *)
(*   args       the constructor's arguments and the environment            *)
(*   pc         "new" before __init__, then "ready" or "failed"            *)
(*   self       the attributes of the FullyConnected object once built     *)
(*   cuda_data  env.cuda_data_manager: buffer name -> tensor               *)
(*   last       the last call: its name, arguments, locals and result      *)
(***************************************************************************)
VARIABLES args, pc, self, cuda_data, last

vars == <<args, pc, self, cuda_data, last>>

Ok(v) == [value |-> v]

(***************************************************************************)
(* FullyConnected.get_flattened_obs_size                                   *)
(***************************************************************************)
\* a variant that counts the action mask among the features
SizeWithMask(observation_space) ==
    IF observation_space.kind = "Box"
    THEN Ok(Prod(observation_space.shape))
    ELSE IF observation_space.kind = "Dict"
    THEN Ok(SumSeq([i \in DOMAIN observation_space.spaces |->
                Prod(observation_space.spaces[i].shape)]))
    ELSE Raise("NotImplementedError")

get_flattened_obs_size(observation_space) ==
    IF observation_space.kind = "Box"
    THEN Ok(Prod(observation_space.shape))
    ELSE IF observation_space.kind = "Dict"
    THEN Ok(SumSeq([i \in DOMAIN observation_space.spaces |->
                IF observation_space.spaces[i].key = ACTION_MASK
                THEN 0
                ELSE Prod(observation_space.spaces[i].shape)]))
    ELSE Raise("NotImplementedError")

(***************************************************************************)
(* FullyConnected.__init__: the new object, or the exception raised.       *)
(***************************************************************************)
ActionSpaceList(action_space) ==
    IF action_space.kind = "Discrete" THEN Ok(<<action_space.n>>)
    ELSE IF action_space.kind = "MultiDiscrete" THEN Ok(action_space.nvec)
    ELSE Raise("NotImplementedError")

FcLayers(flattened_obs_size, fc_dims) ==
    LET input_dims == <<flattened_obs_size>> \o SubSeq(fc_dims, 1, Len(fc_dims) - 1)
    IN  [l \in DOMAIN fc_dims |-> Layer(l - 1, input_dims[l], fc_dims[l])]

PolicyHeads(fc_dims, action_space) ==
    [idx \in DOMAIN action_space |->
        Layer(Len(fc_dims) + idx, fc_dims[Len(fc_dims)], action_space[idx])]

VfHead(fc_dims, n_heads) ==
    Layer(Len(fc_dims) + n_heads + 1, fc_dims[Len(fc_dims)], 1)

\* the object once the assertions have passed, or the exception raised
BuildObject(a) ==
    LET size == get_flattened_obs_size(a.observation_space)
        acts == ActionSpaceList(a.action_space)
    IN  IF IsErr(size) THEN size
        ELSE IF IsErr(acts) THEN acts
        ELSE [ policy |-> a.policy,
               policy_tag_to_agent_id_map |-> a.policy_tag_to_agent_id_map,
               create_separate_placeholders_for_each_policy |->
                   a.create_separate_placeholders_for_each_policy,
               obs_dim_corresponding_to_num_agents |->
                   a.obs_dim_corresponding_to_num_agents,
               fast_forward_mode |-> FALSE,
               observation_space |-> a.observation_space,
               fc |-> FcLayers(size.value, a.fc_dims),
               policy_head |-> PolicyHeads(a.fc_dims, acts.value),
               vf_head |-> VfHead(a.fc_dims, Len(acts.value)),
               action_mask |-> None ]

\* a variant without the assertion on obs_dim_corresponding_to_num_agents
NewObjectUnchecked(a) == BuildObject(a)

NewObject(a) ==
    IF a.assertions /\ a.obs_dim_corresponding_to_num_agents \notin {"first", "last"}
    THEN Raise("AssertionError")
    ELSE BuildObject(a)

(***************************************************************************)
(* FullyConnected.reshape_and_flatten_obs                                  *)
(***************************************************************************)
NumAgentsOf(o, n_agents) ==
    IF o.create_separate_placeholders_for_each_policy
    THEN Len(o.policy_tag_to_agent_id_map[o.policy])
    ELSE n_agents

\* t.reshape(shape) and t.permute(dims), unless computing t has raised
ThenReshape(t, shape) == IF IsErr(t) THEN t ELSE Reshape(t, shape)

ThenPermute(t, dims) == IF IsErr(t) THEN t ELSE Permute(t, dims)

\* a variant that reshapes without permuting the agent dimension
ReshapeWithoutPermute(o, n_agents, obs) ==
    IF o.obs_dim_corresponding_to_num_agents \in {"first", "last"}
    THEN Reshape(obs, <<obs.shape[1], NumAgentsOf(o, n_agents), -1>>)
    ELSE Raise("ValueError")

reshape_and_flatten_obs(o, n_agents, obs) ==
    LET num_envs   == obs.shape[1]
        num_agents == NumAgentsOf(o, n_agents)
        shape_len  == Len(obs.shape)
    IN  IF o.obs_dim_corresponding_to_num_agents = "first"
        THEN Reshape(obs, <<num_envs, num_agents, -1>>)
        ELSE IF o.obs_dim_corresponding_to_num_agents = "last"
        THEN ThenReshape(
                ThenPermute(IF shape_len = 1
                            THEN Reshape(obs, <<-1, num_agents>>)
                            ELSE obs,
                            <<0, -1>> \o [dim \in 1..(shape_len - 2) |-> dim]),
                <<num_envs, num_agents, -1>>)
        ELSE Raise("ValueError")

(***************************************************************************)
(* FullyConnected.get_flattened_obs: the value returned or the exception   *)
(* raised (ret), self.action_mask afterwards, and whether the call has     *)
(* assigned self.action_mask (recomputed).                                 *)
(***************************************************************************)
FirstErr(ts) ==
    IF \E i \in DOMAIN ts : IsErr(ts[i])
    THEN ts[CHOOSE i \in DOMAIN ts :
                IsErr(ts[i]) /\ \A j \in 1..(i - 1) : ~IsErr(ts[j])]
    ELSE None

NameOf(o, key) ==
    IF o.create_separate_placeholders_for_each_policy
    THEN <<OBSERVATIONS, o.policy>> \o key
    ELSE <<OBSERVATIONS>> \o key

\* torch.cat(flat, dim=-1), unless flattening an entry has raised
CatFlattened(flat) == IF IsErr(FirstErr(flat)) THEN FirstErr(flat) ELSE CatLast(flat)

\* the Dict branch, given the reshaped action mask (or what reshaping it has
\* raised, or the old mask when the space has no action mask) and the other
\* entries flattened
DictObs(o, has_mask, mask, flat) ==
    IF IsErr(mask)
    THEN [ret |-> mask, action_mask |-> o.action_mask, recomputed |-> FALSE]
    ELSE [ret |-> CatFlattened(flat), action_mask |-> mask, recomputed |-> has_mask]

get_flattened_obs(o, n_agents, data) ==
    IF o.observation_space.kind = "Box"
    THEN [ret |-> reshape_and_flatten_obs(o, n_agents, data[NameOf(o, <<>>)]),
          action_mask |-> o.action_mask, recomputed |-> FALSE]
    ELSE IF o.observation_space.kind = "Dict"
    THEN LET spaces == o.observation_space.spaces
             masks  == SelectSeq(spaces, LAMBDA e : e.key = ACTION_MASK)
             others == SelectSeq(spaces, LAMBDA e : e.key # ACTION_MASK)
         IN  DictObs(o, masks # <<>>,
                 IF masks = <<>> THEN o.action_mask
                 ELSE reshape_and_flatten_obs(o, n_agents,
                          data[NameOf(o, <<masks[1].key>>)]),
                 [i \in DOMAIN others |->
                     reshape_and_flatten_obs(o, n_agents,
                         data[NameOf(o, <<others[i].key>>)])])
    ELSE [ret |-> Raise("NotImplementedError"), action_mask |-> o.action_mask,
          recomputed |-> FALSE]

(***************************************************************************)
(* FullyConnected.forward.  The record returned holds the value returned   *)
(* or the exception raised (ret), self.action_mask afterwards, and the     *)
(* locals of the pass: the observation batch (obs), the input of the       *)
(* trunk (ip), the logits of the heads evaluated, whether the heads were   *)
(* reached with a stored mask (masked), and the mask this pass has         *)
(* computed from its own observations, if any (fresh_mask).                *)
(***************************************************************************)
RECURSIVE Trunk(_, _)
Trunk(fc, ip) ==
    IF fc = <<>> THEN ip
    ELSE LET op == Linear(Head(fc), ip)
         IN  IF IsErr(op) THEN op ELSE Trunk(Tail(fc), ReLU(op))

\* a variant that selects the agents in fast_forward_mode too
SelectAgentsInEveryMode(o, obs) ==
    IF ~o.create_separate_placeholders_for_each_policy
    THEN IndexSelect(obs, o.policy_tag_to_agent_id_map[o.policy])
    ELSE obs

\* the input of the trunk when forward assembles the observations itself
SelectAgents(o, obs) ==
    IF ~o.fast_forward_mode /\ ~o.create_separate_placeholders_for_each_policy
    THEN IndexSelect(obs, o.policy_tag_to_agent_id_map[o.policy])
    ELSE obs

HeadLogits(o, op) == [k \in DOMAIN o.policy_head |-> Linear(o.policy_head[k], op)]

ActionProbs(logits, mask) ==
    [k \in DOMAIN logits |->
        LET masked == IF IsErr(logits[k]) THEN logits[k]
                      ELSE apply_logit_mask(logits[k], mask)
        IN  IF IsErr(masked) THEN masked ELSE Softmax(masked)]

\* the heads evaluated: all of them, or those up to the first that raises
Evaluated(probs) ==
    IF IsErr(FirstErr(probs))
    THEN CHOOSE i \in DOMAIN probs : IsErr(probs[i]) /\ \A j \in 1..(i - 1) : ~IsErr(probs[j])
    ELSE Len(probs)

\* the heads, given the output of the trunk (or what has been raised so far)
ForwardHeads(o, obs, got, ip, op, logits, probs, vals) ==
    [ ret |-> IF IsErr(op) THEN op
              ELSE IF IsErr(FirstErr(probs)) THEN FirstErr(probs)
              ELSE IF IsErr(vals) THEN vals
              ELSE [action_probs |-> probs, vals |-> SelectLast0(vals)],
      action_mask |-> o.action_mask,
      obs |-> IF IsErr(got.ret) THEN None ELSE got.ret,
      ip |-> IF IsErr(ip) THEN None ELSE ip,
      logits |-> SubSeq(logits, 1, Evaluated(probs)),
      masked |-> ~IsErr(op) /\ ~IsNone(o.action_mask),
      supplied |-> ~IsNone(obs),
      fresh_mask |-> IF got.recomputed THEN got.action_mask ELSE None ]

ForwardLogits(o, obs, got, ip, op, logits) ==
    ForwardHeads(o, obs, got, ip, op, logits,
                 ActionProbs(logits, o.action_mask),
                 IF IsErr(op) THEN op ELSE Linear(o.vf_head, op))

ForwardOp(o, obs, got, ip, op) ==
    ForwardLogits(o, obs, got, ip, op,
                  IF IsErr(op) THEN <<>> ELSE HeadLogits(o, op))

ForwardTrunk(o, obs, got, ip) ==
    ForwardOp(o, obs, got, ip, IF IsErr(ip) THEN ip ELSE Trunk(o.fc, ip))

\* o is self after the observations have been assembled
ForwardInput(o, obs, got) ==
    ForwardTrunk(o, obs, got,
                 IF IsErr(got.ret) THEN got.ret
                 ELSE IF IsNone(obs) THEN SelectAgents(o, got.ret)
                 ELSE obs)

ForwardObs(o, obs, got) ==
    ForwardInput([o EXCEPT !.action_mask = got.action_mask], obs, got)

forward(o, n_agents, data, obs) ==
    ForwardObs(o, obs,
               IF IsNone(obs) THEN get_flattened_obs(o, n_agents, data)
               ELSE [ret |-> obs, action_mask |-> o.action_mask, recomputed |-> FALSE])

(***************************************************************************)
(* The object's life: construction, then calls in any order, while the     *)
(* simulation rewrites the buffers.                                        *)
(***************************************************************************)
Init ==
    /\ args \in Arguments
    /\ pc = "new"
    /\ self = None
    /\ cuda_data = Buffers(args, 0)
    /\ last = [op |-> "none"]

Construct ==
    /\ pc = "new"
    /\ \E obj \in {NewObject(args)} :
           /\ pc' = IF IsErr(obj) THEN "failed" ELSE "ready"
           /\ self' = IF IsErr(obj) THEN None ELSE obj
           /\ last' = [op |-> "__init__",
                       ret |-> IF IsErr(obj) THEN obj ELSE None]
    /\ UNCHANGED <<args, cuda_data>>

\* a variant that toggles the mode
ToggleFastForwardMode ==
    /\ pc = "ready"
    /\ self' = [self EXCEPT !.fast_forward_mode = ~self.fast_forward_mode]
    /\ last' = [op |-> "set_fast_forward_mode", ret |-> None]
    /\ UNCHANGED <<args, pc, cuda_data>>

SetFastForwardMode ==
    /\ pc = "ready"
    /\ self' = [self EXCEPT !.fast_forward_mode = TRUE]
    /\ last' = [op |-> "set_fast_forward_mode", ret |-> None]
    /\ UNCHANGED <<args, pc, cuda_data>>

GetFlattenedObsSize ==
    /\ pc = "ready"
    /\ last' = [op |-> "get_flattened_obs_size",
                ret |-> get_flattened_obs_size(self.observation_space)]
    /\ UNCHANGED <<args, pc, self, cuda_data>>

\* what a caller may hand to reshape_and_flatten_obs: a buffer, or a vector
\* with one entry per environment
ReshapeInputs ==
    {cuda_data[n] : n \in DOMAIN cuda_data}
        \cup {Tensor(<<NumEnvs>>, [k \in 1..NumEnvs |-> k])}

ReshapeAndFlattenObs ==
    /\ pc = "ready"
    /\ \E obs \in ReshapeInputs :
          last' = [op |-> "reshape_and_flatten_obs", obs |-> obs,
                   ret |-> reshape_and_flatten_obs(self, args.n_agents, obs)]
    /\ UNCHANGED <<args, pc, self, cuda_data>>

GetFlattenedObs ==
    /\ pc = "ready"
    /\ \E got \in {get_flattened_obs(self, args.n_agents, cuda_data)} :
           /\ self' = [self EXCEPT !.action_mask = got.action_mask]
           /\ last' = [op |-> "get_flattened_obs", ret |-> got.ret]
    /\ UNCHANGED <<args, pc, cuda_data>>

\* what a caller may hand to forward: nothing, or a batch of flattened
\* observations with one row per agent of the policy
NumFeatures(o) == o.fc[1].in_features

ForwardInputs ==
    LET shape == <<NumEnvs, Len(self.policy_tag_to_agent_id_map[self.policy]),
                   NumFeatures(self)>>
    IN  {None, Tensor(shape, [k \in 1..Prod(shape) |-> 2 * k])}

Forward ==
    /\ pc = "ready"
    /\ \E obs \in ForwardInputs :
          \E f \in {forward(self, args.n_agents, cuda_data, obs)} :
              /\ self' = [self EXCEPT !.action_mask = f.action_mask]
              /\ last' = [op |-> "forward", supplied |-> f.supplied, obs |-> f.obs,
                          ip |-> f.ip, logits |-> f.logits, masked |-> f.masked,
                          mask |-> f.action_mask, fresh_mask |-> f.fresh_mask,
                          ret |-> f.ret]
    /\ UNCHANGED <<args, pc, cuda_data>>

\* the simulation writes new observations and a new action mask
EnvStep ==
    /\ \E v \in 0..MaxStep :
          /\ cuda_data' = Buffers(args, v)
          /\ cuda_data' # cuda_data
    /\ UNCHANGED <<args, pc, self, last>>

Next ==
    \/ Construct
    \/ SetFastForwardMode
    \/ GetFlattenedObsSize
    \/ ReshapeAndFlattenObs
    \/ GetFlattenedObs
    \/ Forward
    \/ EnvStep

Spec == Init /\ [][Next]_vars

(***************************************************************************)
(* apply_logit_mask and the softmax of its result, as forward composes     *)
(* them, on one row of logits and a mask of the same shape (or no mask).   *)
(***************************************************************************)
RowLengths == {2, 3}

LogitRows ==
    UNION { {Tensor(<<n>>, d) : d \in [1..n -> (-MaxLogit)..MaxLogit]} : n \in RowLengths }

MasksFor(logits) ==
    {None} \cup {Tensor(logits.shape, m) : m \in [1..Numel(logits) -> {0, 1}]}

\* a call of apply_logit_mask is pending with its arguments
InitMask ==
    /\ args = CHOOSE a \in Arguments : TRUE
    /\ pc = "new"
    /\ self = None
    /\ cuda_data = Buffers(args, 0)
    /\ \E logits \in LogitRows :
          \E mask \in MasksFor(logits) :
             last = [op |-> "call", logits |-> logits, mask |-> mask]

ApplyLogitMask ==
    /\ last.op = "call"
    /\ \E ret \in {apply_logit_mask(last.logits, last.mask)} :
          last' = [op |-> "apply_logit_mask", logits |-> last.logits,
                   mask |-> last.mask, ret |-> ret, probs |-> Softmax(ret)]
    /\ UNCHANGED <<args, pc, self, cuda_data>>

SpecMask == InitMask /\ [][ApplyLogitMask]_vars

(***************************************************************************)
(* Properties.                                                             *)
(***************************************************************************)
Ids == self.policy_tag_to_agent_id_map[self.policy]

Shared == ~self.create_separate_placeholders_for_each_policy

\* ip holds exactly the rows ids of obs ([E, N, F]), in the order of ids
RowsOf(ip, obs, ids) ==
    /\ ip.shape = <<obs.shape[1], Len(ids), obs.shape[3]>>
    /\ \A e \in 0..(obs.shape[1] - 1) :
         \A j \in 1..Len(ids) :
            \A f \in 1..obs.shape[3] :
               ip.data[(e * Len(ids) + (j - 1)) * obs.shape[3] + f]
                   = obs.data[(e * obs.shape[2] + ids[j]) * obs.shape[3] + f]

ForwardRan == pc = "ready" /\ last.op = "forward" /\ ~IsNone(last.obs)

\* C1 as stated: in every forward pass, with the observations supplied or
\* assembled, the trunk is fed the rows of this policy's agents when the
\* placeholders are shared and fast_forward_mode is off, and the full batch
\* otherwise.
C1_SelectionInEveryPass ==
    ForwardRan =>
        /\ ~IsNone(last.ip)
        /\ IF Shared /\ ~self.fast_forward_mode
           THEN /\ \A j \in DOMAIN Ids : Ids[j] < last.obs.shape[2]
                /\ RowsOf(last.ip, last.obs, Ids)
           ELSE last.ip = last.obs

\* C1 amended: the selection is made only when forward assembles the
\* observations from the data store; observations supplied by the caller are
\* fed to the trunk unchanged, whatever the mode.
C1_SelectionWhenAssembled ==
    ForwardRan =>
        /\ ~IsNone(last.ip)
        /\ IF ~last.supplied /\ Shared /\ ~self.fast_forward_mode
           THEN RowsOf(last.ip, last.obs, Ids)
           ELSE last.ip = last.obs

C1_Witness ==
    /\ ForwardRan
    /\ ~last.supplied
    /\ ~IsNone(last.ip)
    /\ last.ip # last.obs
    /\ Len(Ids) < last.obs.shape[2]

HeadsReached == pc = "ready" /\ last.op = "forward" /\ last.logits # <<>>

\* C2 as stated: the mask applied to the logits in a forward pass is the one
\* this pass has recomputed from its own observations (none when it has
\* recomputed none); no mask stored by an earlier call is applied.
C2_MaskIsTransient ==
    HeadsReached => last.mask = last.fresh_mask

\* C3: fast_forward_mode is off after construction, on after
\* set_fast_forward_mode, never goes from on to off, and a call of
\* set_fast_forward_mode with the mode already on changes nothing of the
\* object.
C3_OneWayToggle ==
    [][ /\ (pc = "new" /\ pc' = "ready") => ~self'.fast_forward_mode
        /\ (pc = "ready" /\ self.fast_forward_mode) => self'.fast_forward_mode
        /\ (pc = "ready" /\ last'.op = "set_fast_forward_mode")
              => self'.fast_forward_mode
        /\ (pc = "ready" /\ self.fast_forward_mode
               /\ last'.op = "set_fast_forward_mode") => self' = self ]_vars

C3_Witness ==
    /\ pc = "ready"
    /\ self.fast_forward_mode
    /\ last.op \in {"forward", "get_flattened_obs", "reshape_and_flatten_obs"}

ReshapeRan == pc = "ready" /\ last.op = "reshape_and_flatten_obs"

AgentDimOf(obs) ==
    IF self.obs_dim_corresponding_to_num_agents = "last"
    THEN obs.shape[Len(obs.shape)]
    ELSE obs.shape[2]

\* the call's precondition: a batch with an agent dimension of num_agents
\* entries, in the configured position
ReshapePre ==
    /\ ReshapeRan
    /\ self.obs_dim_corresponding_to_num_agents \in {"first", "last"}
    /\ Len(last.obs.shape) >= 3
    /\ AgentDimOf(last.obs) = NumAgentsOf(self, args.n_agents)

\* C4: reshape_and_flatten_obs returns [num_envs, num_agents, features] with
\* the agent dimension second: with the agent dimension last, element
\* [e][n][f] of the result is element [e][f][n] of the input, f running over
\* the other trailing dimensions in their order; with the agent dimension
\* first, every element keeps its position.
C4_ReshapeMovesAgentsSecond ==
    ReshapePre =>
        LET E == last.obs.shape[1]
            N == NumAgentsOf(self, args.n_agents)
            F == Numel(last.obs) \div (E * N)
        IN  /\ IsTensor(last.ret)
            /\ last.ret.shape = <<E, N, F>>
            /\ \A e \in 0..(E - 1) : \A n \in 0..(N - 1) : \A f \in 0..(F - 1) :
                  last.ret.data[(e * N + n) * F + f + 1] =
                      IF self.obs_dim_corresponding_to_num_agents = "last"
                      THEN last.obs.data[(e * F + f) * N + n + 1]
                      ELSE last.obs.data[(e * N + n) * F + f + 1]

C4_Witness ==
    /\ ReshapePre
    /\ self.obs_dim_corresponding_to_num_agents = "last"
    /\ Len(last.obs.shape) = 4
    /\ IsTensor(last.ret)
    /\ last.ret.data # last.obs.data

MaskRan == last.op = "apply_logit_mask"

\* C5: apply_logit_mask returns the logits unchanged without a mask; with a
\* mask, every position holds the logit itself where the mask is 1 and the
\* logit minus 10000000 where the mask is 0.
C5_MaskPenalty ==
    MaskRan =>
        IF IsNone(last.mask) THEN last.ret = last.logits
        ELSE /\ IsTensor(last.ret)
             /\ last.ret.shape = last.logits.shape
             /\ \A i \in DOMAIN last.logits.data :
                   last.ret.data[i] =
                       IF last.mask.data[i] = 1 THEN last.logits.data[i]
                       ELSE last.logits.data[i] - 10000000

C5_Witness ==
    /\ MaskRan
    /\ IsTensor(last.mask)
    /\ \E i, j \in DOMAIN last.mask.data : last.mask.data[i] = 1 /\ last.mask.data[j] = 0
    /\ last.ret # last.logits

AllZeros(mask) == IsTensor(mask) /\ \A i \in DOMAIN mask.data : mask.data[i] = 0

\* a probability of at most one hundredth
Suppressed(p) == p <= ProbScale \div 100

\* C6 as stated: with a mask of zeros only, every probability of the softmax
\* of the masked logits is at most a small epsilon.
C6_AllZerosSuppressesAll ==
    (MaskRan /\ AllZeros(last.mask)) =>
        \A i \in DOMAIN last.probs.data : Suppressed(last.probs.data[i])

\* C6 amended: with a mask of zeros only every logit gets the same penalty,
\* so the probabilities still sum to 1 and the largest is at least
\* 1/length (nothing is suppressed); an entry is suppressed when its mask is
\* 0 and the mask of another entry of its row is 1.
C6_SuppressedBesideValid ==
    MaskRan =>
        LET n == Numel(last.logits)
            p == last.probs.data
        IN  /\ AllZeros(last.mask) =>
                 /\ SumSeq(p) <= ProbScale
                 /\ SumSeq(p) >= ProbScale - n
                 /\ \E i \in 1..n : p[i] * n >= ProbScale - n
            /\ IsTensor(last.mask) =>
                 \A i \in 1..n :
                    (last.mask.data[i] = 0 /\ \E j \in 1..n : last.mask.data[j] = 1)
                        => Suppressed(p[i])

C6_Witness ==
    /\ MaskRan
    /\ AllZeros(last.mask)
    /\ \E i \in DOMAIN last.probs.data : ~Suppressed(last.probs.data[i])

Cardinalities ==
    IF args.action_space.kind = "Discrete" THEN <<args.action_space.n>>
    ELSE args.action_space.nvec

RowSumsToOne(t) ==
    \A r \in 1..NumRows(t) :
        /\ SumSeq(Row(t, r)) <= ProbScale
        /\ SumSeq(Row(t, r)) >= ProbScale - LastDim(t)

\* C7 as stated: forward returns one probability tensor per action
\* dimension, in order; the k-th has the k-th cardinality as its last
\* dimension and sums to 1 along it; the values have shape [E, A] with the
\* agent count A of the probability tensors.
C7_ForwardOutput ==
    (pc = "ready" /\ last.op = "forward" /\ ~IsErr(last.ret)) =>
        /\ Len(last.ret.action_probs) = Len(Cardinalities)
        /\ Len(last.ret.vals.shape) = 2
        /\ \A k \in DOMAIN last.ret.action_probs :
              /\ LastDim(last.ret.action_probs[k]) = Cardinalities[k]
              /\ RowSumsToOne(last.ret.action_probs[k])
              /\ Lead(last.ret.action_probs[k]) = last.ret.vals.shape

\* the size the claim gives for an observation space
SpaceSize(space) ==
    IF space.kind = "Box" THEN Prod(space.shape)
    ELSE SumSeq([i \in DOMAIN space.spaces |-> Prod(space.spaces[i].shape)])
           - SumSeq([i \in DOMAIN space.spaces |->
                       IF space.spaces[i].key = "action_mask"
                       THEN Prod(space.spaces[i].shape) ELSE 0])

AssertionFails ==
    args.assertions /\ args.obs_dim_corresponding_to_num_agents \notin {"first", "last"}

\* C8: get_flattened_obs_size is the product of the shape for a Box space
\* and the sum of the products of the shapes of all entries but the action
\* mask for a Dict space (3 + 4 = 7 for {A: (3,), mask: (2,), B: (4,)}); for
\* any other kind it raises the unsupported-type error and returns no size.
C8_FlattenedObsSize ==
    /\ (pc = "ready" /\ last.op = "get_flattened_obs_size") =>
          /\ last.ret = Ok(SpaceSize(self.observation_space))
          /\ self.observation_space.kind = "Dict" => last.ret.value = 7
          /\ self.observation_space.kind = "Box" => last.ret.value = 6
    /\ pc = "ready" =>
          /\ args.observation_space.kind \in {"Box", "Dict"}
          /\ self.fc[1].in_features = SpaceSize(self.observation_space)
    /\ (last.op = "__init__" /\ ~AssertionFails
           /\ args.observation_space.kind \notin {"Box", "Dict"}) =>
          /\ pc = "failed"
          /\ last.ret = Raise("NotImplementedError")

C8_Witness ==
    /\ pc = "ready"
    /\ last.op = "get_flattened_obs_size"
    /\ self.observation_space.kind = "Dict"
    /\ last.ret = Ok(7)

BadSetting == args.obs_dim_corresponding_to_num_agents \notin {"first", "last"}

BadSpaces ==
    \/ args.observation_space.kind \notin {"Box", "Dict"}
    \/ args.action_space.kind \notin {"Discrete", "MultiDiscrete"}

Raised == last.op # "none" /\ IsErr(last.ret)

\* C9 as stated: a setting other than "first" or "last" is reported at
\* forward time by the check of reshape_and_flatten_obs (a ValueError), and
\* only unsupported space kinds are reported at construction time.
C9_BadSettingReportedAtForward ==
    /\ (Raised /\ last.op = "__init__") => BadSpaces /\ last.ret = Raise("NotImplementedError")
    /\ (BadSetting /\ ~BadSpaces /\ pc # "new") => pc = "ready"

\* C9 amended: with assert statements on, a setting other than "first" or
\* "last" is reported at construction time by the assertion of __init__
\* (AssertionError), before the space kinds are looked at, and no object is
\* built; only with assert statements off is the object built, and then
\* every call of reshape_and_flatten_obs raises the ValueError, which
\* get_flattened_obs and forward (assembling the observations) pass on.
\* Unsupported space kinds raise NotImplementedError at construction time.
C9_BadSettingReported ==
    /\ (AssertionFails /\ pc # "new") =>
          pc = "failed" /\ last.op = "__init__" /\ last.ret = Raise("AssertionError")
    /\ (BadSetting /\ pc = "ready") =>
          /\ ~args.assertions
          /\ last.op \in {"reshape_and_flatten_obs", "get_flattened_obs"}
                => last.ret = Raise("ValueError")
          /\ (last.op = "forward" /\ ~last.supplied) => last.ret = Raise("ValueError")
    /\ (~AssertionFails /\ BadSpaces /\ pc # "new") =>
          pc = "failed" /\ last.op = "__init__" /\ last.ret = Raise("NotImplementedError")
    /\ (~BadSetting /\ Raised) => last.ret # Raise("ValueError")
    /\ (~BadSetting /\ ~BadSpaces /\ pc # "new") => pc = "ready"

C9_Witness ==
    /\ BadSetting
    /\ ~BadSpaces
    /\ pc = "failed"
    /\ last.ret = Raise("AssertionError")

\* C10 as stated: whenever a stored action mask is applied in a forward
\* pass, it has the shape of the logits of every policy head.
C10_MaskMatchesLogits ==
    (pc = "ready" /\ last.op = "forward" /\ last.masked) =>
        \A k \in DOMAIN last.logits : last.mask.shape = last.logits[k].shape

====
